---- MODULE Spec2Model ----
(***************************************************************************)
(* The Titanic dashboard of src/app.py: the module-level dataset load, the *)
(* reactive filter filtered_data() and the render dispatch                 *)
(* selected_visualization() with its four rendering functions.             *)
(***************************************************************************)
EXTENDS Integers, Sequences, FiniteSets, TLC

VARIABLES pc, df, diag, input, calc, outValid, displayed

vars == <<pc, df, diag, input, calc, outValid, displayed>>

(***************************************************************************)
(* Bounds of the model.                                                    *)
(***************************************************************************)
\* the longest table the filter is applied to
MaxRows == 2

(***************************************************************************)
(* The controls of the sidebar.                                            *)
(***************************************************************************)
PclassChoices == {"1", "2", "3", "All"}
SexChoices == {"male", "female", "All"}
PlotChoices == {"Scatterplot: Age vs Fare", "Histogram: Age Distribution",
                "Dataset Table", "Box Plot: Titanic Dataset by Survived"}
SliderMin == 0
SliderMax == 100
DefaultAgeLow == 20
DefaultAgeHigh == 50
\* the slider positions the model moves the two handles to
AgeStops == {SliderMin, DefaultAgeLow, DefaultAgeHigh, SliderMax}
AgeRanges == {<<lo, hi>> : lo \in AgeStops, hi \in AgeStops} \cap
             {r \in AgeStops \X AgeStops : r[1] <= r[2]}

DefaultInput ==
    [selected_pclass |-> {"1"},
     selected_sex    |-> {"male", "female"},
     age_range       |-> <<DefaultAgeLow, DefaultAgeHigh>>,
     selected_plot   |-> "Scatterplot: Age vs Fare"]

(***************************************************************************)
(* Tables.  A row carries the three columns the filter reads; a missing    *)
(* age is the float NaN, which compares false with every number.           *)
(***************************************************************************)
NaN == -1
IsNaN(a) == a = NaN
Ge(a, b) == ~IsNaN(a) /\ a >= b
Le(a, b) == ~IsNaN(a) /\ a <= b

Row(p, s, a) == [pclass |-> p, sex |-> s, age |-> a]
Table(cols, rows) == [kind |-> "table", columns |-> cols, rows |-> rows]
Raised(e) == [kind |-> "error", error |-> e]
Unbound == [kind |-> "unbound"]

\* the header of the CSV file and what line 20 makes of it
RawColumns == {"Pclass", "Sex", "Age", "Fare", "Survived"}
StripLower(c) ==
    CASE c = "Pclass"   -> "pclass"
      [] c = "Sex"      -> "sex"
      [] c = "Age"      -> "age"
      [] c = "Fare"     -> "fare"
      [] c = "Survived" -> "survived"
      [] OTHER          -> c
\* pd.DataFrame(): no columns, no rows
EmptyFrame == Table({}, <<>>)

\* rows a fetched table may hold: the two rows of the specification's
\* example, rows at the default slider bounds, a row without an age, and a
\* row whose class and sex are not among the controls' choices
RowPool == {Row(1, "male", 30), Row(2, "female", 45), Row(3, "female", 20),
            Row(3, "male", 50), Row(2, "male", NaN), Row(4, "unknown", 60)}
RECURSIVE SeqsUpTo(_, _)
SeqsUpTo(S, n) ==
    IF n = 0 THEN {<<>>}
    ELSE LET shorter == SeqsUpTo(S, n - 1)
         IN shorter \cup {Append(q, x) : q \in {t \in shorter : Len(t) = n - 1}, x \in S}
Datasets == SeqsUpTo(RowPool, MaxRows)
\* the rows the running application is given
SampleRows == <<Row(1, "male", 30), Row(2, "female", 45),
                Row(3, "male", NaN)>>

(***************************************************************************)
(* filtered_data(), lines 94-116.                                          *)
(***************************************************************************)
\* int(s) of map(int, selected_pclass): defined on decimal strings only
IsDecimal(s) == s \in {"1", "2", "3"}
IntOf(s) == CASE s = "1" -> 1 [] s = "2" -> 2 [] s = "3" -> 3

\* lines 102-103 and 104-105
ExpandPclassOnlyAll(sel) == IF sel = {"All"} THEN {"1", "2", "3"} ELSE sel
ExpandPclass(sel) == IF "All" \in sel THEN {"1", "2", "3"} ELSE sel
ExpandSexLiteral(sel) == sel
ExpandSex(sel) == IF "All" \in sel THEN {"male", "female"} ELSE sel

\* truth value of a selection (lines 107, 110) and of the slider's pair
\* (line 113)
SelectedAlways(sel) == TRUE
Selected(sel) == sel # {}
Truthy(pair) == Len(pair) > 0

\* line 108; t[col] raises KeyError when the table has no such column, and
\* an exception already raised goes on to the caller
FilterPclass(t, sel) ==
    IF t.kind = "error" THEN t
    ELSE IF "pclass" \notin t.columns THEN Raised("KeyError")
    ELSE IF \E s \in sel : ~IsDecimal(s) THEN Raised("ValueError")
    ELSE Table(t.columns,
               SelectSeq(t.rows, LAMBDA r : r.pclass \in {IntOf(s) : s \in sel}))
\* line 111
FilterSex(t, sel) ==
    IF t.kind = "error" THEN t
    ELSE IF "sex" \notin t.columns THEN Raised("KeyError")
    ELSE Table(t.columns, SelectSeq(t.rows, LAMBDA r : r.sex \in sel))
\* line 114
AgeMaskStrict(r, range) == r.age # NaN /\ r.age > range[1] /\ r.age < range[2]
AgeMaskKeepNaN(r, range) == IsNaN(r.age) \/ (r.age >= range[1] /\ r.age <= range[2])
AgeMask(r, range) == Ge(r.age, range[1]) /\ Le(r.age, range[2])
FilterAge(t, range) ==
    IF t.kind = "error" THEN t
    ELSE IF "age" \notin t.columns THEN Raised("KeyError")
    ELSE Table(t.columns, SelectSeq(t.rows, LAMBDA r : AgeMask(r, range)))

filtered_data(d, inp) ==
    LET selected_pclass == ExpandPclass(inp.selected_pclass)
        selected_sex    == ExpandSex(inp.selected_sex)
        age_range       == inp.age_range
        filtered_df     == d
        s1 == IF Selected(selected_pclass)
              THEN FilterPclass(filtered_df, selected_pclass) ELSE filtered_df
        s2 == IF Selected(selected_sex)
              THEN FilterSex(s1, selected_sex) ELSE s1
        s3 == IF Truthy(age_range)
              THEN FilterAge(s2, age_range) ELSE s2
    IN s3

\* what the call leaves in the module-level df: line 100 copies it, and the
\* later lines rebind the local name only
DfAfterFilterInPlace(d, inp) ==
    LET v == filtered_data(d, inp) IN IF v.kind = "table" THEN v ELSE d
DfAfterFilter(d, inp) == d

(***************************************************************************)
(* The rendering functions, lines 137-172, and the dispatch, lines 119-134.*)
(***************************************************************************)
Notice == [kind |-> "markdown", text |-> "No data to display with the selected filters."]
Chart(what, t) == [kind |-> "chart", chart |-> what, rows |-> t.rows]
Html(t) == [kind |-> "html_table", rows |-> t.rows]
None == [kind |-> "none"]
NoOutput == [kind |-> "blank"]

\* a plotly express call: ValueError when a named column is absent
Px(what, t, cols) ==
    IF cols \subseteq t.columns THEN Chart(what, t) ELSE Raised("ValueError")

\* each rendering function calls filtered_data() first: what that call
\* raised, the function raises
age_vs_fare_scatterplot(fd) ==
    IF fd.kind = "error" THEN fd ELSE Px("scatter", fd, {"age", "fare", "survived"})
age_distribution_histogram(fd) ==
    IF fd.kind = "error" THEN fd ELSE Px("histogram", fd, {"age"})
data_grid_unguarded(fd) ==
    IF fd.kind = "error" THEN fd ELSE Html(fd)
data_grid(fd) ==
    IF fd.kind = "error" THEN fd
    ELSE IF fd.rows = <<>> THEN Notice ELSE Html(fd)
box_plot_survived(fd) ==
    IF fd.kind = "error" THEN fd ELSE Px("box", fd, {"survived", "age"})

selected_visualization(plot_type, fd) ==
    IF plot_type = "Scatterplot: Age vs Fare" THEN age_vs_fare_scatterplot(fd)
    ELSE IF plot_type = "Histogram: Age Distribution" THEN age_distribution_histogram(fd)
    ELSE IF plot_type = "Dataset Table" THEN data_grid(fd)
    ELSE IF plot_type = "Box Plot: Titanic Dataset by Survived" THEN box_plot_survived(fd)
    ELSE None

(***************************************************************************)
(* The module-level load, lines 9-23.                                      *)
(***************************************************************************)
StatusCodes == {200, 404}
\* what requests.get meets: no connection, or a response with a status
\* and a body that read_csv can or cannot parse
Fetches == {[kind |-> "ConnectionError"]} \cup
           {[kind |-> "response", status_code |-> c, csv |-> b] :
                c \in StatusCodes, b \in BOOLEAN}

Load ==
    /\ pc = "start"
    /\ \E response \in Fetches :
          IF response.kind = "ConnectionError"
          THEN /\ pc' = "crashed"
               /\ UNCHANGED <<df, diag>>
          ELSE IF response.status_code = 200
          THEN IF response.csv
               THEN /\ df' = Table({StripLower(c) : c \in RawColumns}, SampleRows)
                    /\ pc' = "running"
                    /\ UNCHANGED diag
               ELSE /\ pc' = "crashed"
                    /\ UNCHANGED <<df, diag>>
          ELSE /\ diag' = Append(diag, [text |-> "Failed to retrieve data. HTTP Status Code:",
                                        code |-> response.status_code])
               /\ df' = EmptyFrame
               /\ pc' = "running"
    /\ UNCHANGED <<input, calc, outValid, displayed>>

(***************************************************************************)
(* The reactive session.  A control change invalidates what read the       *)
(* control (several changes may arrive before a flush); the flush re-runs  *)
(* the invalidated output, which calls filtered_data() and so re-runs an   *)
(* invalidated Calc.                                                       *)
(***************************************************************************)
Invalidated == [valid |-> FALSE, value |-> None]
\* the controls filtered_data() reads, lines 96-98
CalcReadsNoAge == {"selected_pclass", "selected_sex"}
CalcReads == {"selected_pclass", "selected_sex", "age_range"}
\* the control selected_visualization() reads, line 122
OutReads == {"selected_plot"}

SetInput(name, v) ==
    /\ pc = "running"
    /\ v # input[name]
    /\ input' = [input EXCEPT ![name] = v]
    /\ calc' = IF name \in CalcReads THEN Invalidated ELSE calc
    /\ outValid' = (outValid /\ name \notin CalcReads /\ name \notin OutReads)
    /\ UNCHANGED <<pc, df, diag, displayed>>

SetSelectedPclass == \E v \in SUBSET PclassChoices : SetInput("selected_pclass", v)
SetSelectedSex == \E v \in SUBSET SexChoices : SetInput("selected_sex", v)
SetAgeRange == \E v \in AgeRanges : SetInput("age_range", v)
SetSelectedPlot == \E v \in PlotChoices : SetInput("selected_plot", v)

\* the Calc: the cached value, or a run of the function
CallFilteredData ==
    /\ pc = "running"
    /\ ~calc.valid
    /\ calc' = [valid |-> TRUE, value |-> filtered_data(df, input)]
    /\ df' = DfAfterFilter(df, input)
    /\ UNCHANGED <<pc, diag, input, outValid, displayed>>

Flush ==
    /\ pc = "running"
    /\ ~outValid
    /\ LET fd == IF calc.valid THEN calc.value ELSE filtered_data(df, input)
       IN /\ calc' = [valid |-> TRUE, value |-> fd]
          /\ df' = IF calc.valid THEN df ELSE DfAfterFilter(df, input)
          /\ displayed' = selected_visualization(input.selected_plot, fd)
    /\ outValid' = TRUE
    /\ UNCHANGED <<pc, diag, input>>

Init ==
    /\ pc = "start"
    /\ df = Unbound
    /\ diag = <<>>
    /\ input = DefaultInput
    /\ calc = Invalidated
    /\ outValid = FALSE
    /\ displayed = NoOutput

Next ==
    \/ Load
    \/ SetSelectedPclass
    \/ SetSelectedSex
    \/ SetAgeRange
    \/ SetSelectedPlot
    \/ Flush

Spec == Init /\ [][Next]_vars

(***************************************************************************)
(* filtered_data() as a function: every table up to MaxRows rows of        *)
(* RowPool under every selection of the three filter controls.             *)
(***************************************************************************)
InitFilter ==
    /\ pc = "running"
    /\ df \in {Table({StripLower(c) : c \in RawColumns}, rows) : rows \in Datasets}
    /\ diag = <<>>
    /\ input \in [selected_pclass : SUBSET PclassChoices,
                  selected_sex    : SUBSET SexChoices,
                  age_range       : AgeRanges,
                  selected_plot   : {DefaultInput.selected_plot}]
    /\ calc = Invalidated
    /\ outValid = FALSE
    /\ displayed = NoOutput

NextFilter == CallFilteredData

SpecFilter == InitFilter /\ [][NextFilter]_vars

(***************************************************************************)
(* The predicates of the Filtered View, stated on a row.                   *)
(***************************************************************************)
ClassName(n) == CASE n = 1 -> "1" [] n = 2 -> "2" [] n = 3 -> "3" [] OTHER -> "other"
MatchesPclass(r, sel) ==
    IF "All" \in sel THEN r.pclass \in 1..3 ELSE ClassName(r.pclass) \in sel
MatchesSex(r, sel) ==
    IF "All" \in sel THEN r.sex \in {"male", "female"} ELSE r.sex \in sel
InAgeRange(r, range) == r.age # NaN /\ range[1] <= r.age /\ r.age <= range[2]
\* an empty selection is an inactive predicate
PclassSat(r, inp) == inp.selected_pclass = {} \/ MatchesPclass(r, inp.selected_pclass)
SexSat(r, inp) == inp.selected_sex = {} \/ MatchesSex(r, inp.selected_sex)
AgeSat(r, inp) == InAgeRange(r, inp.age_range)
Range(q) == {q[i] : i \in DOMAIN q}
View == calc.value
IsView == calc.valid /\ calc.value.kind = "table"
ExampleInput ==
    [DefaultInput EXCEPT !.selected_pclass = {"1"}, !.selected_sex = {"All"},
                         !.age_range = <<20, 50>>]
ExampleRows == <<Row(1, "male", 30), Row(2, "female", 45)>>

\* C1: the table filtered_data() returns holds exactly the rows of the
\* Dataset, in their order, that satisfy every active predicate (class among
\* the selected classes, sex among the selected sexes, age within the range);
\* on the two-row example with pclass={1}, sex={All}, age_range=[20,50] it is
\* the single row (1, male, 30).
C1_FilteredViewExact ==
    calc.valid =>
        /\ View.kind = "table"
        /\ View.rows = SelectSeq(df.rows,
              LAMBDA r : PclassSat(r, input) /\ SexSat(r, input) /\ AgeSat(r, input))
        /\ (df.rows = ExampleRows /\ input = ExampleInput
               => View.rows = <<Row(1, "male", 30)>>)
C1_Witness ==
    /\ IsView
    /\ df.rows = ExampleRows
    /\ input = ExampleInput
    /\ Len(View.rows) = 1

\* C2 as stated: when a categorical selection contains "All", no row of the
\* Dataset is excluded on account of that column, whatever value it holds
\* there: the view is the Dataset filtered by the other predicates alone.
C2_AllMatchesEveryValue ==
    calc.valid =>
        /\ "All" \in input.selected_pclass =>
              /\ View.kind = "table"
              /\ View.rows = SelectSeq(df.rows,
                    LAMBDA r : SexSat(r, input) /\ AgeSat(r, input))
        /\ "All" \in input.selected_sex =>
              /\ View.kind = "table"
              /\ View.rows = SelectSeq(df.rows,
                    LAMBDA r : PclassSat(r, input) /\ AgeSat(r, input))
\* C2 as amended: when a categorical selection contains "All" (alone or with
\* other values), the column's predicate matches exactly the values the
\* control offers besides the sentinel (classes 1, 2, 3; sexes male,
\* female): no row holding one of them is excluded on account of the column,
\* and a row holding any other value is.
C2_AllMatchesControlDomain ==
    calc.valid =>
        /\ "All" \in input.selected_pclass =>
              /\ View.kind = "table"
              /\ View.rows = SelectSeq(df.rows,
                    LAMBDA r : r.pclass \in {1, 2, 3} /\ SexSat(r, input) /\ AgeSat(r, input))
        /\ "All" \in input.selected_sex =>
              /\ View.kind = "table"
              /\ View.rows = SelectSeq(df.rows,
                    LAMBDA r : r.sex \in {"male", "female"}
                               /\ PclassSat(r, input) /\ AgeSat(r, input))
C2_Witness ==
    /\ IsView
    /\ input.selected_pclass = {"1", "All"}
    /\ input.selected_sex = {}
    /\ df.rows = <<Row(3, "male", 50), Row(4, "unknown", 60)>>
    /\ View.rows = <<Row(3, "male", 50)>>

\* C3: the age predicate is inclusive at both bounds: a row that passes the
\* class and sex predicates is in the view when its age equals the minimum
\* or the maximum of age_range, and is not when its age is below the minimum
\* or above the maximum.
C3_AgeRangeInclusive ==
    calc.valid =>
        /\ View.kind = "table"
        /\ \A i \in DOMAIN df.rows :
              LET r == df.rows[i] IN
              (~IsNaN(r.age) /\ PclassSat(r, input) /\ SexSat(r, input)) =>
                  /\ (r.age = input.age_range[1] \/ r.age = input.age_range[2])
                        => r \in Range(View.rows)
                  /\ (r.age < input.age_range[1] \/ r.age > input.age_range[2])
                        => r \notin Range(View.rows)
C3_Witness ==
    /\ IsView
    /\ input.age_range = <<20, 50>>
    /\ \E i, j \in DOMAIN View.rows : View.rows[i].age = 20 /\ View.rows[j].age = 50

\* C8: an empty categorical selection is an inactive predicate: the view is
\* the Dataset filtered by the remaining predicates only.
C8_EmptySelectionInactive ==
    calc.valid =>
        /\ input.selected_pclass = {} =>
              /\ View.kind = "table"
              /\ View.rows = SelectSeq(df.rows,
                    LAMBDA r : SexSat(r, input) /\ AgeSat(r, input))
        /\ input.selected_sex = {} =>
              /\ View.kind = "table"
              /\ View.rows = SelectSeq(df.rows,
                    LAMBDA r : PclassSat(r, input) /\ AgeSat(r, input))
C8_Witness ==
    /\ IsView
    /\ input.selected_pclass = {}
    /\ input.selected_sex = {}
    /\ Len(df.rows) = 2
    /\ View.rows = df.rows

\* C10: a row whose age is missing is in no view; the slider always supplies
\* a pair, so the age predicate always applies, and even "All" classes,
\* "All" sexes and the range [0,100] do not return a Dataset that holds such
\* a row in full.
C10_MissingAgeNeverShown ==
    /\ Len(input.age_range) = 2
    /\ calc.valid =>
          /\ View.kind = "table"
          /\ \A i \in DOMAIN View.rows : ~IsNaN(View.rows[i].age)
          /\ ( /\ "All" \in input.selected_pclass
               /\ "All" \in input.selected_sex
               /\ input.age_range = <<SliderMin, SliderMax>>
               /\ \E i \in DOMAIN df.rows : IsNaN(df.rows[i].age) )
                => View.rows # df.rows
C10_Witness ==
    /\ IsView
    /\ input.selected_pclass = {"All"}
    /\ input.selected_sex = {"All"}
    /\ input.age_range = <<SliderMin, SliderMax>>
    /\ df.rows = <<Row(1, "male", 30), Row(2, "male", NaN)>>
    /\ View.rows = <<Row(1, "male", 30)>>

(***************************************************************************)
(* The running application.                                                *)
(***************************************************************************)
Idle == pc = "running" /\ outValid
EmptyView == Idle /\ IsView /\ View.rows = <<>>

\* C4 as stated: in every render mode an empty Filtered View is displayed
\* as the "no data" notice.
C4_NoticeInEveryMode == EmptyView => displayed = Notice
\* C4 as amended: with an empty Filtered View the "Dataset Table" mode
\* displays the "no data" notice; the scatterplot, histogram and box plot
\* modes display their chart, drawn from no rows.
C4_NoticeInTableMode ==
    EmptyView =>
        IF input.selected_plot = "Dataset Table"
        THEN displayed = Notice
        ELSE displayed.kind = "chart" /\ displayed.rows = <<>>
C4_Witness ==
    /\ EmptyView
    /\ df.rows = SampleRows
    /\ input.selected_plot = "Dataset Table"
    /\ displayed = Notice

\* C5: after a loader failure the Dataset is an empty table, and
\* filtered_data() and selected_visualization() complete without raising,
\* whatever the selection and the render mode.
C5_LoaderFailureNoCrash ==
    (pc = "running" /\ diag # <<>>) =>
        /\ df.kind = "table" /\ df.rows = <<>>
        /\ calc.valid => calc.value.kind = "table"
        /\ outValid => displayed.kind \in {"markdown", "chart", "html_table"}

\* C6: whatever the fetch and the parse do, loading ends with the Dataset
\* bound to the parsed table or to an empty table with a diagnostic, never
\* with an uncaught error that stops startup.
C6_LoaderNeverRaises ==
    pc # "start" =>
        /\ pc = "running"
        /\ df.kind = "table"
        /\ (df = EmptyFrame => diag # <<>>)

\* C7: when the reactive runtime has finished recomputing, the displayed
\* visualization is the rendering function of the current selected_plot
\* applied to the Filtered View of the current filter controls.
C7_DisplayedIsCurrent ==
    Idle => displayed = selected_visualization(input.selected_plot,
                                               filtered_data(df, input))
C7_Witness ==
    /\ Idle
    /\ input.selected_plot = "Dataset Table"
    /\ input.selected_pclass = {"All"}
    /\ input.age_range = <<SliderMin, SliderMax>>
    /\ displayed.kind = "html_table"
    /\ Len(displayed.rows) = 2

\* C9: once loading has finished, no control change, filter recomputation
\* or render changes the module-level table df.
C9_DatasetNeverMutated == [][pc = "running" => df' = df]_vars
C9_Witness ==
    /\ Idle
    /\ IsView
    /\ input # DefaultInput
    /\ df.rows = SampleRows
    /\ Len(View.rows) < Len(df.rows)

====
